---- MODULE Spec2Model ----
(***************************************************************************)
(* Constraint blocks of oemof.solph (blocks.py, custom.py).                *)
(*                                                                         *)
(* Every block's _create allocates sets, variables and constraint          *)
(* families in its own namespace; _objective_expression adds the block's   *)
(* cost terms.  A constraint is kept as a record of its terms, so that the *)
(* variables, coefficients and direction of every emitted row can be       *)
(* compared with what the documentation promises.                          *)
(*                                                                         *)
(* Numbers: fractions (efficiencies, losses, capacity fractions) are kept  *)
(* in percent, so 100 stands for 1.0.  An optional attribute is << >> when *)
(* it is None and <<v>> when it is set to v.                               *)
(***************************************************************************)
EXTENDS Integers, Sequences, FiniteSets, TLC

VARIABLES
    group,                \* per block: the group handed to _create (None or a list)
    pc,                   \* per block: "new", "created", "objective"
    err,                  \* the exception that ended the build, None while it runs
    m,                    \* the model: one namespace per block, m.Storage, m.Bus, ...
    es,                   \* the energy system: es.nodes, the node objects
    log                   \* the records emitted through logging

vars == <<group, pc, err, m, es, log>>

\* ------------------------------------------------------------------ basics

None == << >>

Some(v) == <<v>>

\* Number of timesteps of the time index.
NumTimesteps == 3

TIMESTEPS == 0 .. (NumTimesteps - 1)

\* m.timesteps[-1], m.TIMESTEPS[-1]
LastTimestep == NumTimesteps - 1

\* m.previous_timesteps[t]: periodic predecessor of t.
previous_timesteps(t) == IF t = 0 THEN LastTimestep ELSE t - 1

EmptyMap == [k \in {} |-> 0]

\* A sequence attribute with the same value at every timestep.
Const(v) == [t \in TIMESTEPS |-> v]

\* A sequence attribute that changes with the timestep.
Ramp(v) == [t \in TIMESTEPS |-> v + t]

\* A sequence attribute of optional values: unset at every timestep, or set
\* and changing with the timestep.
ConstNone == [t \in TIMESTEPS |-> None]

RampSome(v) == [t \in TIMESTEPS |-> Some(v + t)]

Range(s) == {s[k] : k \in DOMAIN s}

RECURSIVE SumOver(_, _)
\* Python's sum() of f[x] over the elements of S.
SumOver(S, f) ==
    IF S = {} THEN 0
    ELSE LET x == CHOOSE y \in S : TRUE
         IN  f[x] + SumOver(S \ {x}, f)

Blocks == {"Storage", "Bus", "InvestmentFlow", "InvestmentStorage",
           "ElectricalLineBlock", "Discrete", "Flow", "LinearTransformer"}

\* The build runs while no exception has been raised; _create of a block runs
\* once.
Running(block, at) == err = None /\ pc[block] = at

\* The objective expression of a block is taken once, after every block that
\* has a group has been created.
ObjectivePhase(block) ==
    /\ Running(block, "created")
    /\ \A b \in Blocks : pc[b] # "new" \/ group[b] = None

\* Python's len() of a sequence attribute indexed by timestep.
len(s) == Cardinality(DOMAIN s)

\* The flow object of edge (i, o) in a group of (source, target, flow) tuples.
flows(grp, i, o) == (CHOOSE g \in Range(grp) : g[1] = i /\ g[2] = o)[3]

\* The (source, target) keys of the tuples of a group that satisfy P.
EdgeKeys(grp, P(_)) == {<<g[1], g[2]>> : g \in {x \in Range(grp) : P(x[3])}}

\* The topology snapshot in which only `block` has a group, g.
OnlyGroup(block, g) == [b \in Blocks |-> IF b = block THEN g ELSE None]

\* ----------------------------------------------------------------- Storage

BusLabels == {"b1", "b2"}

\* The storage objects a group may hold.  m.INPUTS[n] and m.OUTPUTS[n] are
\* kept with the node as n.input and n.output.
StorageObjects(label, nominal) ==
    [label : {label},
     nominal_capacity : {nominal},
     capacity_min : {Const(0)},
     capacity_max : {Const(100)},
     capacity_loss : {Const(0), Ramp(1)},
     inflow_conversion_factor : {Ramp(90)},
     outflow_conversion_factor : {Ramp(80)},
     initial_capacity : {None, Some(0), Some(50)},
     fixed_costs : {None, Some(3)},
     input : BusLabels,
     output : BusLabels]

StorageGroups ==
    {None}
    \cup {Some(<<a>>) : a \in StorageObjects("s1", 100)}
    \cup {Some(<<a, b>>) : a \in StorageObjects("s1", 100),
                           b \in {x \in StorageObjects("s2", 40) :
                                      x.input = "b1" /\ x.output = "b2"}}

EmptyStorage ==
    [attrs |-> {}, STORAGES |-> {}, capacity |-> EmptyMap,
     balance |-> EmptyMap, fixed_costs |-> 0]

\* blocks.py 67-73: bounds of capacity[n, t]
_storage_capacity_bound_rule(n, t) ==
    [lb |-> n.nominal_capacity * n.capacity_min[t],
     ub |-> n.nominal_capacity * n.capacity_max[t],
     value |-> None,
     fixed |-> FALSE]

\* Storage_capacity with the initial capacity fixed at the first timestep.
Storage_capacity_FixFirst(grp) ==
    [k \in {<<n.label, t>> : n \in Range(grp), t \in TIMESTEPS} |->
        LET n == CHOOSE x \in Range(grp) : x.label = k[1]
            t == k[2]
            v == _storage_capacity_bound_rule(n, t)
        IN  IF n.initial_capacity # None /\ t = 0
            THEN [v EXCEPT !.value = Some(n.initial_capacity[1] * n.nominal_capacity),
                           !.fixed = TRUE]
            ELSE v]

\* blocks.py 74-82: the capacity variable, with the initial capacity fixed
Storage_capacity(grp) ==
    [k \in {<<n.label, t>> : n \in Range(grp), t \in TIMESTEPS} |->
        LET n == CHOOSE x \in Range(grp) : x.label = k[1]
            t == k[2]
            v == _storage_capacity_bound_rule(n, t)
        IN  IF n.initial_capacity # None /\ t = LastTimestep
            THEN [v EXCEPT !.value = Some(n.initial_capacity[1] * n.nominal_capacity),
                           !.fixed = TRUE]
            ELSE v]

\* Storage_storage_balance_rule with the discharge multiplied by the outflow
\* efficiency instead of divided by it.
Storage_storage_balance_rule_MulOut(n, t) ==
    [terms |->
        {[sign |-> 1, var |-> <<"capacity", n.label, t>>,
          op |-> "*", factor |-> 100, dt |-> FALSE],
         [sign |-> -1, var |-> <<"capacity", n.label, previous_timesteps(t)>>,
          op |-> "*", factor |-> 100 - n.capacity_loss[t], dt |-> FALSE],
         [sign |-> -1, var |-> <<"flow", n.input, n.label, t>>,
          op |-> "*", factor |-> n.inflow_conversion_factor[t], dt |-> TRUE],
         [sign |-> 1, var |-> <<"flow", n.label, n.output, t>>,
          op |-> "*", factor |-> n.outflow_conversion_factor[t], dt |-> TRUE]},
     sense |-> "==",
     rhs |-> 0]

\* blocks.py 85-97: the four terms of the balance row of storage n at t.
\* Each term is sign * var * (factor / 100) or sign * var / (factor / 100),
\* times the time increment where dt is TRUE; the row is  sum == rhs.
Storage_storage_balance_rule(n, t) ==
    [terms |->
        {[sign |-> 1, var |-> <<"capacity", n.label, t>>,
          op |-> "*", factor |-> 100, dt |-> FALSE],
         [sign |-> -1, var |-> <<"capacity", n.label, previous_timesteps(t)>>,
          op |-> "*", factor |-> 100 - n.capacity_loss[t], dt |-> FALSE],
         [sign |-> -1, var |-> <<"flow", n.input, n.label, t>>,
          op |-> "*", factor |-> n.inflow_conversion_factor[t], dt |-> TRUE],
         [sign |-> 1, var |-> <<"flow", n.label, n.output, t>>,
          op |-> "/", factor |-> n.outflow_conversion_factor[t], dt |-> TRUE]},
     sense |-> "==",
     rhs |-> 0]

\* blocks.py 98-99
Storage_balance(grp) ==
    [k \in {<<n.label, t>> : n \in Range(grp), t \in TIMESTEPS} |->
        Storage_storage_balance_rule(CHOOSE x \in Range(grp) : x.label = k[1], k[2])]

\* blocks.py 52-99: Storage._create
Storage_create ==
    /\ Running("Storage", "new")
    /\ pc' = [pc EXCEPT !["Storage"] = "created"]
    /\ IF group["Storage"] = None
       THEN m' = m
       ELSE LET grp == group["Storage"][1]
            IN  m' = [m EXCEPT !.Storage = [@ EXCEPT
                    !.attrs = @ \cup {"STORAGES", "capacity", "balance"},
                    !.STORAGES = Range(grp),
                    !.capacity = Storage_capacity(grp),
                    !.balance = Storage_balance(grp)]]
    /\ UNCHANGED <<group, err, es, log>>

\* blocks.py 101-117: Storage._objective_expression
Storage_objective_expression ==
    /\ ObjectivePhase("Storage")
    /\ pc' = [pc EXCEPT !["Storage"] = "objective"]
    /\ IF "STORAGES" \notin m.Storage.attrs
       THEN m' = m
       ELSE m' = [m EXCEPT !.Storage = [@ EXCEPT
                !.attrs = @ \cup {"fixed_costs"},
                !.fixed_costs = SumOver(m.Storage.STORAGES,
                    [n \in m.Storage.STORAGES |->
                        IF n.fixed_costs # None
                        THEN n.nominal_capacity * n.fixed_costs[1]
                        ELSE 0])]]
    /\ UNCHANGED <<group, err, es, log>>

\* ---------------------------------------------------------------------- Bus

ComponentLabels == {"c1", "c2"}

\* The edges a bus topology may have: between a bus and a component.
BusEdges == (BusLabels \X ComponentLabels) \cup (ComponentLabels \X BusLabels)

\* A bus object of the topology with edge set E: n.inputs and n.outputs are
\* the nodes at the other end of its edges.
BusObject(label, E) ==
    [label |-> label,
     inputs |-> {e[1] : e \in {x \in E : x[2] = label}},
     outputs |-> {e[2] : e \in {x \in E : x[1] = label}}]

BusGroups ==
    {None}
    \cup {Some(<<BusObject("b1", E)>>) : E \in SUBSET BusEdges}
    \cup {Some(<<BusObject("b1", E), BusObject("b2", E)>>) : E \in SUBSET BusEdges}

EmptyBus == [attrs |-> {}, balance |-> EmptyMap]

\* Bus_balance_expr with the outflow sum taken over the inputs again.
Bus_balance_expr_InputsTwice(n, t) ==
    LET lhs == {<<"flow", i, n.label, t>> : i \in n.inputs}
        rhs == {<<"flow", n.label, o, t>> : o \in n.inputs}
    IN  [lhs |-> lhs, rhs |-> rhs, dt |-> TRUE, sense |-> "==",
         is_True |-> (lhs = {} /\ rhs = {})]

\* Bus_balance_expr with a row dropped as soon as one of its sides is empty.
Bus_balance_expr_SkipOneSided(n, t) ==
    LET lhs == {<<"flow", i, n.label, t>> : i \in n.inputs}
        rhs == {<<"flow", n.label, o, t>> : o \in n.outputs}
    IN  [lhs |-> lhs, rhs |-> rhs, dt |-> TRUE, sense |-> "==",
         is_True |-> (lhs = {} \/ rhs = {})]

\* blocks.py 598-602: lhs == rhs.  Each side is the sum of the listed flow
\* variables, each times the time increment; Python's sum() of no term is
\* the integer 0, and 0 == 0 is the bool True rather than an expression.
Bus_balance_expr(n, t) ==
    LET lhs == {<<"flow", i, n.label, t>> : i \in n.inputs}
        rhs == {<<"flow", n.label, o, t>> : o \in n.outputs}
    IN  [lhs |-> lhs, rhs |-> rhs, dt |-> TRUE, sense |-> "==",
         is_True |-> (lhs = {} /\ rhs = {})]

\* blocks.py 595-605: the rows _busbalance_rule adds
_busbalance_rule(grp) ==
    LET keys == {k \in {<<n, t>> : n \in Range(grp), t \in TIMESTEPS} :
                    ~Bus_balance_expr(k[1], k[2]).is_True}
    IN  [k \in {<<x[1].label, x[2]>> : x \in keys} |->
            Bus_balance_expr(CHOOSE n \in Range(grp) : n.label = k[1], k[2])]

\* blocks.py 579-606: Bus._create
Bus_create ==
    /\ Running("Bus", "new")
    /\ pc' = [pc EXCEPT !["Bus"] = "created"]
    /\ IF group["Bus"] = None
       THEN m' = m
       ELSE m' = [m EXCEPT !.Bus = [@ EXCEPT
                !.attrs = @ \cup {"balance", "balance_build"},
                !.balance = _busbalance_rule(group["Bus"][1])]]
    /\ UNCHANGED <<group, err, es, log>>

\* ----------------------------------------------------------- InvestmentFlow

\* The flow objects with an investment attribute a group may hold.
InvestFlowObjects(fixed, maxs, mins, smax, smin, eps, fcs) ==
    [fixed : fixed,
     actual_value : {Ramp(10)},
     max : maxs,
     min : mins,
     summed_max : smax,
     summed_min : smin,
     fixed_costs : fcs,
     investment : [maximum : {1000}, ep_costs : eps]]

\* The edges that charge and discharge an invested storage.
CouplingFlowObjects ==
    InvestFlowObjects({FALSE}, {<< >>}, {<< >>}, {None}, {None},
                      {None, Some(7)}, {None})

\* An edge between a component and a bus, with every combination of attributes.
FreeFlowObjects ==
    InvestFlowObjects(BOOLEAN, {<< >>, Ramp(80)}, {<< >>, Const(10)},
                      {None, Some(300)}, {None, Some(20)},
                      {None, Some(9)}, {None, Some(1)})

EmptyInvestmentFlow ==
    [attrs |-> {}, FLOWS |-> {}, FIXEDFLOWS |-> {}, SUMMED_MAX_FLOWS |-> {},
     SUMMED_MIN_FLOWS |-> {}, MAX_FLOWS |-> {}, MIN_FLOWS |-> {},
     invest |-> EmptyMap, bounds |-> EmptyMap, max |-> EmptyMap,
     min |-> EmptyMap, summed_max |-> EmptyMap, summed_min |-> EmptyMap,
     investment_costs |-> {}, fixed_costs |-> {}, variable_costs |-> 0]

\* A row  lhs sense coef * invest[i, o]  over one flow variable.
InvestRow(lhs, sense, coef, i, o) ==
    [lhs |-> lhs, sense |-> sense,
     rhs |-> [var |-> <<"invest", i, o>>, coef |-> coef]]

\* blocks.py 478-481
_investvar_bound_rule(grp, i, o) ==
    [lb |-> 0, ub |-> flows(grp, i, o).investment.maximum]

\* blocks.py 490-495
_investflow_bound_rule(grp, i, o, t) ==
    InvestRow(<<"flow", i, o, t>>, "==", flows(grp, i, o).actual_value[t], i, o)

\* blocks.py 499-505
_max_investflow_rule(grp, i, o, t) ==
    InvestRow(<<"flow", i, o, t>>, "<=", flows(grp, i, o).max[t], i, o)

\* blocks.py 509-515
_min_investflow_rule(grp, i, o, t) ==
    InvestRow(<<"flow", i, o, t>>, ">=", flows(grp, i, o).min[t], i, o)

\* blocks.py 519-526: the sum of flow * timeincrement over the timesteps
_summed_max_investflow_rule(grp, i, o) ==
    InvestRow({<<"flow", i, o, t>> : t \in TIMESTEPS}, "<=",
              flows(grp, i, o).summed_max[1], i, o)

\* blocks.py 530-537
_summed_min_investflow_rule(grp, i, o) ==
    InvestRow({<<"flow", i, o, t>> : t \in TIMESTEPS}, ">=",
              flows(grp, i, o).summed_min[1], i, o)

\* Constraint(S, m.TIMESTEPS, rule=...) over edge keys
EdgeTimeFamily(S, rule(_, _, _)) ==
    [k \in {<<e[1], e[2], t>> : e \in S, t \in TIMESTEPS} |-> rule(k[1], k[2], k[3])]

\* Constraint(S, rule=...) or Var(S, bounds=...) over edge keys
EdgeFamily(S, rule(_, _)) == [k \in S |-> rule(k[1], k[2])]

\* blocks.py 460-475: the sets of the block
InvestmentFlow_sets(grp) ==
    LET any(f) == TRUE
        fixed(f) == f.fixed
        smax(f) == f.summed_max # None
        smin(f) == f.summed_min # None
        hasmax(f) == len(f.max) # 0
        hasmin(f) == len(f.min) # 0
    IN  [FLOWS |-> EdgeKeys(grp, any),
         FIXEDFLOWS |-> EdgeKeys(grp, fixed),
         SUMMED_MAX_FLOWS |-> EdgeKeys(grp, smax),
         SUMMED_MIN_FLOWS |-> EdgeKeys(grp, smin),
         MAX_FLOWS |-> EdgeKeys(grp, hasmax),
         MIN_FLOWS |-> EdgeKeys(grp, hasmin)]

\* blocks.py 443-539: InvestmentFlow._create
InvestmentFlow_create ==
    /\ Running("InvestmentFlow", "new")
    /\ pc' = [pc EXCEPT !["InvestmentFlow"] = "created"]
    /\ IF group["InvestmentFlow"] = None
       THEN m' = m
       ELSE LET grp == group["InvestmentFlow"][1]
                S == InvestmentFlow_sets(grp)
                bound(i, o) == _investvar_bound_rule(grp, i, o)
                fix(i, o, t) == _investflow_bound_rule(grp, i, o, t)
                mx(i, o, t) == _max_investflow_rule(grp, i, o, t)
                mn(i, o, t) == _min_investflow_rule(grp, i, o, t)
                smx(i, o) == _summed_max_investflow_rule(grp, i, o)
                smn(i, o) == _summed_min_investflow_rule(grp, i, o)
            IN  m' = [m EXCEPT !.InvestmentFlow = [@ EXCEPT
                    !.attrs = @ \cup {"FLOWS", "FIXEDFLOWS", "SUMMED_MAX_FLOWS",
                                      "SUMMED_MIN_FLOWS", "MAX_FLOWS", "MIN_FLOWS",
                                      "invest", "bounds", "max", "min",
                                      "summed_max", "summed_min"},
                    !.FLOWS = S.FLOWS,
                    !.FIXEDFLOWS = S.FIXEDFLOWS,
                    !.SUMMED_MAX_FLOWS = S.SUMMED_MAX_FLOWS,
                    !.SUMMED_MIN_FLOWS = S.SUMMED_MIN_FLOWS,
                    !.MAX_FLOWS = S.MAX_FLOWS,
                    !.MIN_FLOWS = S.MIN_FLOWS,
                    !.invest = EdgeFamily(S.FLOWS, bound),
                    !.bounds = EdgeTimeFamily(S.FIXEDFLOWS, fix),
                    !.max = EdgeTimeFamily(S.MAX_FLOWS, mx),
                    !.min = EdgeTimeFamily(S.MIN_FLOWS, mn),
                    !.summed_max = EdgeFamily(S.SUMMED_MAX_FLOWS, smx),
                    !.summed_min = EdgeFamily(S.SUMMED_MIN_FLOWS, smn)]]
    /\ UNCHANGED <<group, err, es, log>>

\* blocks.py 560-564: the edges of FLOWS at which the loop raises
InvestmentFlow_missing_ep_costs(grp) ==
    {k \in m.InvestmentFlow.FLOWS :
        flows(grp, k[1], k[2]).investment.ep_costs = None}

\* blocks.py 541-570: InvestmentFlow._objective_expression
InvestmentFlow_objective_expression ==
    /\ ObjectivePhase("InvestmentFlow")
    /\ IF "FLOWS" \notin m.InvestmentFlow.attrs
       THEN /\ m' = m
            /\ err' = err
            /\ pc' = [pc EXCEPT !["InvestmentFlow"] = "objective"]
       ELSE LET grp == group["InvestmentFlow"][1]
                F == m.InvestmentFlow.FLOWS
            IN  IF InvestmentFlow_missing_ep_costs(grp) # {}
                THEN /\ err' = Some("ValueError: Missing value for investment costs!")
                     /\ UNCHANGED <<m, pc>>
                ELSE /\ m' = [m EXCEPT !.InvestmentFlow = [@ EXCEPT
                            !.attrs = @ \cup {"investment_costs", "fixed_costs",
                                              "variable_costs"},
                            !.investment_costs =
                                {[var |-> <<"invest", k[1], k[2]>>,
                                  coef |-> flows(grp, k[1], k[2]).investment.ep_costs[1]]
                                 : k \in {x \in F :
                                     flows(grp, x[1], x[2]).investment.ep_costs # None}},
                            !.fixed_costs =
                                {[var |-> <<"invest", k[1], k[2]>>,
                                  coef |-> flows(grp, k[1], k[2]).fixed_costs[1]]
                                 : k \in {x \in F :
                                     flows(grp, x[1], x[2]).fixed_costs # None}},
                            !.variable_costs = 0]]
                     /\ err' = err
                     /\ pc' = [pc EXCEPT !["InvestmentFlow"] = "objective"]
    /\ UNCHANGED <<group, es, log>>

\* -------------------------------------------------------- InvestmentStorage

\* The storage objects with an investment attribute a group may hold.
InvestStorageObjects(label, input, output, mins) ==
    [label : {label},
     capacity_min : mins,
     capacity_max : {Ramp(90)},
     capacity_loss : {Ramp(1)},
     inflow_conversion_factor : {Ramp(90)},
     outflow_conversion_factor : {Ramp(80)},
     initial_capacity : {None, Some(50)},
     fixed_costs : {None, Some(2)},
     nominal_input_capacity_ratio : {20},
     nominal_output_capacity_ratio : {25},
     investment : [maximum : {500}, ep_costs : {None, Some(5)}],
     input : {input},
     output : {output}]

EmptyInvestmentStorage ==
    [attrs |-> {}, INVESTSTORAGES |-> {}, INITIAL_CAPACITY |-> {},
     MIN_INVESTSTORAGES |-> {}, capacity |-> {}, invest |-> EmptyMap,
     balance |-> EmptyMap, initial_capacity_invest |-> EmptyMap,
     storage_capacity_input_invest |-> EmptyMap,
     storage_capacity_output_invest |-> EmptyMap,
     max_capacity_invest |-> EmptyMap, min_investstorage |-> EmptyMap,
     investment_costs |-> {}, fixed_costs |-> {}]

\* Constraint(S, m.TIMESTEPS, rule=...) over storages
NodeTimeFamily(S, rule(_, _)) ==
    [k \in {<<n.label, t>> : n \in S, t \in TIMESTEPS} |->
        rule(CHOOSE n \in S : n.label = k[1], k[2])]

\* Constraint(S, rule=...) or Var(S, bounds=...) over storages
NodeFamily(S, rule(_)) ==
    [k \in {n.label : n \in S} |-> rule(CHOOSE n \in S : n.label = k)]

\* A row  lhs sense coef * invest[n]  of the block.
StorageInvestRow(lhs, sense, coef, n) ==
    [lhs |-> lhs, sense |-> sense,
     rhs |-> [var |-> <<"invest", n.label>>, coef |-> coef]]

\* blocks.py 207-210
_storage_investvar_bound_rule(n) == [lb |-> 0, ub |-> n.investment.maximum]

\* blocks.py 215-226: the same four terms as the balance of a fixed storage
InvestmentStorage_storage_balance_rule(n, t) ==
    [terms |->
        {[sign |-> 1, var |-> <<"capacity", n.label, t>>,
          op |-> "*", factor |-> 100, dt |-> FALSE],
         [sign |-> -1, var |-> <<"capacity", n.label, previous_timesteps(t)>>,
          op |-> "*", factor |-> 100 - n.capacity_loss[t], dt |-> FALSE],
         [sign |-> -1, var |-> <<"flow", n.input, n.label, t>>,
          op |-> "*", factor |-> n.inflow_conversion_factor[t], dt |-> TRUE],
         [sign |-> 1, var |-> <<"flow", n.label, n.output, t>>,
          op |-> "/", factor |-> n.outflow_conversion_factor[t], dt |-> TRUE]},
     sense |-> "==",
     rhs |-> 0]

\* blocks.py 230-235
_initial_capacity_invest_rule(n) ==
    StorageInvestRow(<<"capacity", n.label, LastTimestep>>, "==",
                     n.initial_capacity[1], n)

\* blocks.py 239-244
_storage_capacity_input_invest_rule(n) ==
    StorageInvestRow(<<"InvestmentFlow.invest", n.input, n.label>>, "==",
                     n.nominal_input_capacity_ratio, n)

\* blocks.py 248-253
_storage_capacity_output_invest_rule(n) ==
    StorageInvestRow(<<"InvestmentFlow.invest", n.label, n.output>>, "==",
                     n.nominal_output_capacity_ratio, n)

\* blocks.py 257-262
_max_capacity_invest_rule(n, t) ==
    StorageInvestRow(<<"capacity", n.label, t>>, "<=", n.capacity_max[t], n)

\* The row of min_investstorage as a lower bound.
_min_investstorage_rule_LowerBound(n, t) ==
    StorageInvestRow(<<"capacity", n.label, t>>, ">=", n.capacity_min[t], n)

\* blocks.py 266-271
_min_investstorage_rule(n, t) ==
    StorageInvestRow(<<"capacity", n.label, t>>, "<=", n.capacity_min[t], n)

\* blocks.py 199-201: storages with sum(capacity_min) > 0
MIN_INVESTSTORAGES(S) ==
    {n \in S : SumOver(TIMESTEPS, n.capacity_min) > 0}

\* The lookups of m.InvestmentFlow.invest taken to succeed for any key.
InvestmentFlow_invest_lookup_Unchecked(K) == None

\* blocks.py 242, 251: looking up m.InvestmentFlow.invest[key] for every key of
\* K; the exception of the first lookup that fails, None when all succeed.
InvestmentFlow_invest_lookup(K) ==
    IF "invest" \notin m.InvestmentFlow.attrs
    THEN Some("AttributeError: InvestmentFlow.invest")
    ELSE IF \E k \in K : k \notin DOMAIN m.InvestmentFlow.invest
    THEN Some("KeyError: InvestmentFlow.invest")
    ELSE None

\* blocks.py 182-274: InvestmentStorage._create.  An exception of a coupling
\* rule leaves the components assigned before it in the namespace.
InvestmentStorage_create ==
    /\ Running("InvestmentStorage", "new")
    /\ IF group["InvestmentStorage"] = None
       THEN /\ m' = m
            /\ err' = err
            /\ pc' = [pc EXCEPT !["InvestmentStorage"] = "created"]
       ELSE LET S == Range(group["InvestmentStorage"][1])
                in_err == InvestmentFlow_invest_lookup(
                              {<<n.input, n.label>> : n \in S})
                out_err == InvestmentFlow_invest_lookup(
                              {<<n.label, n.output>> : n \in S})
                upto_initial == [m.InvestmentStorage EXCEPT
                    !.attrs = @ \cup {"INVESTSTORAGES", "INITIAL_CAPACITY",
                                      "MIN_INVESTSTORAGES", "capacity", "invest",
                                      "balance", "initial_capacity_invest"},
                    !.INVESTSTORAGES = S,
                    !.INITIAL_CAPACITY = {n \in S : n.initial_capacity # None},
                    !.MIN_INVESTSTORAGES = MIN_INVESTSTORAGES(S),
                    !.capacity = {<<n.label, t>> : n \in S, t \in TIMESTEPS},
                    !.invest = NodeFamily(S, _storage_investvar_bound_rule),
                    !.balance = NodeTimeFamily(S, InvestmentStorage_storage_balance_rule),
                    !.initial_capacity_invest =
                        NodeFamily({n \in S : n.initial_capacity # None},
                                   _initial_capacity_invest_rule)]
                upto_input == [upto_initial EXCEPT
                    !.attrs = @ \cup {"storage_capacity_input_invest"},
                    !.storage_capacity_input_invest =
                        NodeFamily(S, _storage_capacity_input_invest_rule)]
                all == [upto_input EXCEPT
                    !.attrs = @ \cup {"storage_capacity_output_invest",
                                      "max_capacity_invest", "min_investstorage"},
                    !.storage_capacity_output_invest =
                        NodeFamily(S, _storage_capacity_output_invest_rule),
                    !.max_capacity_invest =
                        NodeTimeFamily(S, _max_capacity_invest_rule),
                    !.min_investstorage =
                        NodeTimeFamily(MIN_INVESTSTORAGES(S), _min_investstorage_rule)]
            IN  IF in_err # None
                THEN /\ m' = [m EXCEPT !.InvestmentStorage = upto_initial]
                     /\ err' = in_err
                     /\ pc' = pc
                ELSE IF out_err # None
                THEN /\ m' = [m EXCEPT !.InvestmentStorage = upto_input]
                     /\ err' = out_err
                     /\ pc' = pc
                ELSE /\ m' = [m EXCEPT !.InvestmentStorage = all]
                     /\ err' = err
                     /\ pc' = [pc EXCEPT !["InvestmentStorage"] = "created"]
    /\ UNCHANGED <<group, es, log>>

\* InvestmentStorage_missing_ep_costs with the else branch that raises left out.
InvestmentStorage_missing_ep_costs_NoRaise == {}

\* blocks.py 285-289: the storages at which the loop raises
InvestmentStorage_missing_ep_costs ==
    {n \in m.InvestmentStorage.INVESTSTORAGES : n.investment.ep_costs = None}

\* blocks.py 276-296: InvestmentStorage._objective_expression
InvestmentStorage_objective_expression ==
    /\ ObjectivePhase("InvestmentStorage")
    /\ IF "INVESTSTORAGES" \notin m.InvestmentStorage.attrs
       THEN /\ m' = m
            /\ err' = err
            /\ pc' = [pc EXCEPT !["InvestmentStorage"] = "objective"]
       ELSE LET S == m.InvestmentStorage.INVESTSTORAGES
            IN  IF InvestmentStorage_missing_ep_costs # {}
                THEN /\ err' = Some("ValueError: Missing value for investment costs!")
                     /\ UNCHANGED <<m, pc>>
                ELSE /\ m' = [m EXCEPT !.InvestmentStorage = [@ EXCEPT
                            !.attrs = @ \cup {"investment_costs", "fixed_costs"},
                            !.investment_costs =
                                {[var |-> <<"invest", n.label>>,
                                  coef |-> n.investment.ep_costs[1]]
                                 : n \in {x \in S : x.investment.ep_costs # None}},
                            !.fixed_costs =
                                {[var |-> <<"invest", n.label>>,
                                  coef |-> n.fixed_costs[1]]
                                 : n \in {x \in S : x.fixed_costs # None}}]]
                     /\ err' = err
                     /\ pc' = [pc EXCEPT !["InvestmentStorage"] = "objective"]
    /\ UNCHANGED <<group, es, log>>

\* ------------------------------------------------------ ElectricalLineBlock

\* custom.py 33-37: ElectricalBus.__init__; kwargs.slack is None when the
\* caller gave no slack argument.
ElectricalBus(label, kwargs) ==
    [label |-> label,
     type |-> "ElectricalBus",
     kwargs |-> kwargs,
     slack |-> IF kwargs.slack = None THEN TRUE ELSE kwargs.slack[1],
     v_max |-> 1000,
     v_min |-> -1000]

\* A bus that is no ElectricalBus: it has no slack attribute and no angle.
PlainBus(label) ==
    [label |-> label, type |-> "Bus", kwargs |-> [slack |-> None],
     slack |-> FALSE, v_max |-> 0, v_min |-> 0]

\* custom.py 55-57: an ElectricalLine with its single input and output
ElectricalLine(label, input, output, reactance) ==
    [label |-> label, input |-> input, output |-> output,
     reactance |-> reactance]

\* custom.py 102-103: I[n], O[n]
I(n) == n.input

O(n) == n.output

isinstance(n, type) == n.type = type

\* The node of es.nodes with the given label.
node(label) == CHOOSE n \in Range(es.nodes) : n.label = label

\* custom.py 106-107: the electrical buses, in the order of es.nodes
ELECTRICAL_BUSES ==
    SelectSeq(es.nodes, LAMBDA n : isinstance(n, "ElectricalBus"))

EmptyElectricalLineBlock ==
    [attrs |-> {}, ELECTRICAL_BUSES |-> << >>, voltage_angle |-> EmptyMap,
     electrical_flow |-> EmptyMap, equate_electrical_flows |-> EmptyMap]

\* custom.py 109-110
_voltage_angle_bounds(b, t) == [lb |-> b.v_min, ub |-> b.v_max]

\* custom.py 111-112
voltage_angle(buses) ==
    [k \in {<<b.label, t>> : b \in Range(buses), t \in TIMESTEPS} |->
        _voltage_angle_bounds(CHOOSE b \in Range(buses) : b.label = k[1], k[2])]

\* custom.py 126: the right-hand side 0
ZeroRhs == [terms |-> {}, reactance |-> None]

\* custom.py 129-131: 1 / reactance[t] * (angle[I[n], t] - angle[O[n], t])
AngleRhs(n, t) ==
    [terms |-> {[sign |-> 1, var |-> <<"voltage_angle", I(n), t>>],
                [sign |-> -1, var |-> <<"voltage_angle", O(n), t>>]},
     reactance |-> Some(n.reactance[t])]

\* custom.py 124-131: lhs and rhs of the row of line n at t.  The branch for
\* a slack output assigns them first; the try block that follows is not an
\* else branch and assigns them again for every line.
electrical_flow_expr(n, t) ==
    LET after_if == IF node(O(n)).slack = TRUE
                    THEN [lhs |-> <<"flow", n.label, O(n), t>>, rhs |-> ZeroRhs]
                    ELSE [lhs |-> None, rhs |-> ZeroRhs]
        after_try == [after_if EXCEPT !.lhs = <<"flow", n.label, O(n), t>>,
                                      !.rhs = AngleRhs(n, t)]
    IN  [lhs |-> after_try.lhs, sense |-> "==", rhs |-> after_try.rhs]

\* The equating row with the flow out of the line on both sides.
equate_electrical_flows_expr_SameFlow(n, t) ==
    [lhs |-> <<"flow", n.label, O(n), t>>, sense |-> "==",
     rhs |-> <<"flow", n.label, O(n), t>>]

\* custom.py 137-138
equate_electrical_flows_expr(n, t) ==
    [lhs |-> <<"flow", n.label, O(n), t>>, sense |-> "==",
     rhs |-> <<"flow", I(n), n.label, t>>]

\* custom.py 127-134: the try block fails when a voltage angle of the line
\* does not exist or the reactance is zero
try_fails(n, t) ==
    \/ <<I(n), t>> \notin DOMAIN voltage_angle(ELECTRICAL_BUSES)
    \/ <<O(n), t>> \notin DOMAIN voltage_angle(ELECTRICAL_BUSES)
    \/ n.reactance[t] = 0

\* custom.py 122-123: the order in which the rule visits (t, n)
Visits(grp) ==
    [k \in 1 .. (NumTimesteps * Len(grp)) |->
        <<grp[((k - 1) % Len(grp)) + 1], (k - 1) \div Len(grp)>>]

\* custom.py 121-138: the rows of a family added by the visits before `stop`
RowsBefore(grp, stop, expr(_, _)) ==
    [k \in {<<Visits(grp)[j][1].label, Visits(grp)[j][2]>> : j \in 1 .. (stop - 1)} |->
        expr(CHOOSE n \in Range(grp) : n.label = k[1], k[2])]

\* custom.py 118: logging.info(...) emits the record and returns None
logging_info(msg) == Append(log, [level |-> "INFO", msg |-> msg])

\* custom.py 84-145: ElectricalLineBlock._create
ElectricalLineBlock_create ==
    /\ Running("ElectricalLineBlock", "new")
    /\ IF group["ElectricalLineBlock"] = None
       THEN /\ pc' = [pc EXCEPT !["ElectricalLineBlock"] = "created"]
            /\ UNCHANGED <<m, err, es, log>>
       ELSE LET grp == group["ElectricalLineBlock"][1]
                buses == ELECTRICAL_BUSES
                angles == [m.ElectricalLineBlock EXCEPT
                    !.attrs = @ \cup {"ELECTRICAL_BUSES", "voltage_angle"},
                    !.ELECTRICAL_BUSES = [k \in DOMAIN buses |-> buses[k].label],
                    !.voltage_angle = voltage_angle(buses)]
                failing == {j \in DOMAIN Visits(grp) :
                               try_fails(Visits(grp)[j][1], Visits(grp)[j][2])}
                stop == IF failing = {} THEN Len(Visits(grp)) + 1
                        ELSE CHOOSE j \in failing : \A j2 \in failing : j <= j2
                rows == [angles EXCEPT
                    !.attrs = @ \cup {"electrical_flow", "_equate_electrical_flows",
                                      "electrical_flow_build"},
                    !.electrical_flow = RowsBefore(grp, stop, electrical_flow_expr),
                    !.equate_electrical_flows =
                        RowsBefore(grp, stop, equate_electrical_flows_expr)]
            IN  IF TRUE \notin {b.slack : b \in Range(buses)}
                THEN \* line 118: the note is logged with its placeholder, and
                     \* .format is then called on the None that info() returned;
                     \* line 119, bus.slack = True, is not reached
                     /\ log' = logging_info("No slack bus set, setting bus {} as slack  bus")
                     /\ err' = Some("AttributeError: 'NoneType' object has no attribute 'format'")
                     /\ m' = [m EXCEPT !.ElectricalLineBlock = angles]
                     /\ UNCHANGED <<pc, es>>
                ELSE /\ m' = [m EXCEPT !.ElectricalLineBlock = rows]
                     /\ IF failing = {}
                        THEN /\ pc' = [pc EXCEPT !["ElectricalLineBlock"] = "created"]
                             /\ err' = err
                        ELSE /\ pc' = pc
                             /\ err' = Some("ValueError: Error in constraint creation")
                     /\ UNCHANGED <<es, log>>
    /\ UNCHANGED group

\* ----------------------------------------------------------------- Discrete

\* The flow objects with a discrete attribute a group may hold.
DiscreteFlowObjects(nominal) ==
    [nominal_value : {nominal},
     min : {Const(0), Const(20), Ramp(0)},
     max : {Ramp(70), Const(100)},
     discrete : [start_costs : {None, Some(4)}]]

EmptyDiscrete ==
    [attrs |-> {}, FLOWS |-> {}, MIN_FLOWS |-> {}, STARTCOSTFLOWS |-> {},
     status |-> {}, minimum_flow |-> EmptyMap, maximum_flow |-> EmptyMap]

\* blocks.py 692-698: status * min[t] * nominal_value >= flow
_minimum_flow_rule(grp, i, o, t) ==
    [lhs |-> [var |-> <<"status", i, o, t>>,
              coef |-> flows(grp, i, o).min[t] * flows(grp, i, o).nominal_value],
     sense |-> ">=",
     rhs |-> <<"flow", i, o, t>>]

\* blocks.py 702-708: status * max[t] * nominal_value <= flow
_maximum_flow_rule(grp, i, o, t) ==
    [lhs |-> [var |-> <<"status", i, o, t>>,
              coef |-> flows(grp, i, o).max[t] * flows(grp, i, o).nominal_value],
     sense |-> "<=",
     rhs |-> <<"flow", i, o, t>>]

\* blocks.py 681-687: the sets of the block
Discrete_sets(grp) ==
    LET any(f) == TRUE
        hasmin(f) == f.min[0] # 0
        hasstart(f) == f.discrete.start_costs # None
    IN  [FLOWS |-> EdgeKeys(grp, any),
         MIN_FLOWS |-> EdgeKeys(grp, hasmin),
         STARTCOSTFLOWS |-> EdgeKeys(grp, hasstart)]

\* blocks.py 665-713: Discrete._create.  STARTCOSTFLOWS is built and not used;
\* the block has no objective expression.
Discrete_create ==
    /\ Running("Discrete", "new")
    /\ pc' = [pc EXCEPT !["Discrete"] = "created"]
    /\ IF group["Discrete"] = None
       THEN m' = m
       ELSE LET grp == group["Discrete"][1]
                S == Discrete_sets(grp)
                mn(i, o, t) == _minimum_flow_rule(grp, i, o, t)
                mx(i, o, t) == _maximum_flow_rule(grp, i, o, t)
            IN  m' = [m EXCEPT !.Discrete = [@ EXCEPT
                    !.attrs = @ \cup {"FLOWS", "MIN_FLOWS", "STARTCOSTFLOWS",
                                      "status", "minimum_flow", "maximum_flow"},
                    !.FLOWS = S.FLOWS,
                    !.MIN_FLOWS = S.MIN_FLOWS,
                    !.STARTCOSTFLOWS = S.STARTCOSTFLOWS,
                    !.status = {<<e[1], e[2], t>> : e \in S.FLOWS, t \in TIMESTEPS},
                    !.minimum_flow = EdgeTimeFamily(S.MIN_FLOWS, mn),
                    !.maximum_flow = EdgeTimeFamily(S.MIN_FLOWS, mx)]]
    /\ UNCHANGED <<group, err, es, log>>

\* --------------------------------------------------------------------- Flow

\* The flow objects without investment a group may hold.
FlowObjects(nominal, vcs, fcs) ==
    [nominal_value : {nominal},
     summed_max : {None, Some(300)},
     summed_min : {None, Some(20)},
     positive_gradient : {ConstNone, RampSome(5)},
     negative_gradient : {ConstNone, RampSome(3)},
     variable_costs : vcs,
     fixed_costs : fcs]

\* The ramp variables of the model, m.positive_flow_gradient and
\* m.negative_flow_gradient: one per timestep for every edge whose gradient is
\* constrained, without an upper bound yet.
GradientVars(grp, set(_)) ==
    [k \in {<<e[1], e[2], t>> : e \in EdgeKeys(grp, set), t \in TIMESTEPS} |->
        [ub |-> None]]

EmptyFlow ==
    [attrs |-> {}, SUMMED_MAX_FLOWS |-> {}, SUMMED_MIN_FLOWS |-> {},
     NEGATIVE_GRADIENT_FLOWS |-> {}, POSITIVE_GRADIENT_FLOWS |-> {},
     summed_max |-> EmptyMap, summed_min |-> EmptyMap,
     positive_gradient_constr |-> EmptyMap,
     negative_gradient_constr |-> EmptyMap,
     fixed_costs |-> 0, variable_costs |-> {}]

\* blocks.py 324-336: the sets of the block
Flow_sets(grp) ==
    LET smax(f) == f.summed_max # None
        smin(f) == f.summed_min # None
        neg(f) == f.negative_gradient[0] # None
        pos(f) == f.positive_gradient[0] # None
    IN  [SUMMED_MAX_FLOWS |-> EdgeKeys(grp, smax),
         SUMMED_MIN_FLOWS |-> EdgeKeys(grp, smin),
         NEGATIVE_GRADIENT_FLOWS |-> EdgeKeys(grp, neg),
         POSITIVE_GRADIENT_FLOWS |-> EdgeKeys(grp, pos)]

\* blocks.py 340-348: the upper bounds of the ramp variables of a group
setub(gradient_var, grp, gradient(_)) ==
    [k \in DOMAIN gradient_var |->
        IF \E g \in Range(grp) : g[1] = k[1] /\ g[2] = k[2]
                                 /\ gradient(g[3])[0] # None
        THEN [ub |-> Some(gradient(flows(grp, k[1], k[2]))[k[3]][1]
                          * flows(grp, k[1], k[2]).nominal_value)]
        ELSE gradient_var[k]]

\* blocks.py 340-348: the names i, o and t of _create after the loop over the
\* group: the last tuple of the group and, once an inner loop has run, the
\* last timestep.
LoopVars(grp) ==
    [i |-> grp[Len(grp)][1], o |-> grp[Len(grp)][2], t |-> LastTimestep]

\* blocks.py 352-360
_flow_summed_max_rule(grp, inp, out) ==
    [lhs |-> {<<"flow", inp, out, ts>> : ts \in TIMESTEPS}, dt |-> TRUE,
     sense |-> "<=",
     rhs |-> flows(grp, inp, out).summed_max[1] * flows(grp, inp, out).nominal_value]

\* blocks.py 364-372
_flow_summed_min_rule(grp, inp, out) ==
    [lhs |-> {<<"flow", inp, out, ts>> : ts \in TIMESTEPS}, dt |-> TRUE,
     sense |-> ">=",
     rhs |-> flows(grp, inp, out).summed_min[1] * flows(grp, inp, out).nominal_value]

\* A row  plus - minus <= rhs  over two flow variables.
GradientRow(plus, minus, rhs) ==
    [lhs |-> [plus |-> plus, minus |-> minus], sense |-> "<=", rhs |-> rhs]

\* The ramp-up row with the two flow variables exchanged.
_positive_gradient_flow_rule_Reversed(grp, inp, out, ts) ==
    GradientRow(<<"flow", inp, out, ts - 1>>, <<"flow", inp, out, ts>>,
                <<"positive_flow_gradient", inp, out, ts>>)

\* blocks.py 381-385: the row added for (inp, out, ts), ts > 0
_positive_gradient_flow_rule(grp, inp, out, ts) ==
    GradientRow(<<"flow", inp, out, ts>>, <<"flow", inp, out, ts - 1>>,
                <<"positive_flow_gradient", inp, out, ts>>)

\* blocks.py 397-401: the row added for (inp, out, ts), ts > 0; i, o and t
\* are the names left by the loop of lines 340-348
_negative_gradient_flow_rule(grp, inp, out, ts) ==
    LET i == LoopVars(grp).i
        o == LoopVars(grp).o
        t == LoopVars(grp).t
    IN  GradientRow(<<"flow", i, o, t>>, <<"flow", inp, out, ts - 1>>,
                    <<"positive_flow_gradient", inp, out, ts>>)

\* Rows for the timesteps after the first of every edge of S.
LaterTimeFamily(S, rule(_, _, _)) ==
    [k \in {<<e[1], e[2], ts>> : e \in S, ts \in {x \in TIMESTEPS : x > 0}} |->
        rule(k[1], k[2], k[3])]

\* blocks.py 395-399: the edges of NEGATIVE_GRADIENT_FLOWS, in the order of
\* the group, that the rule has finished when it reaches an edge whose
\* m.positive_flow_gradient does not exist; all of them when none is missing.
NegativeDone(grp) ==
    LET neg == SelectSeq(grp, LAMBDA g : g[3].negative_gradient[0] # None)
        bad == {j \in DOMAIN neg :
                    <<neg[j][1], neg[j][2], 1>> \notin DOMAIN m.positive_flow_gradient}
        stop == IF bad = {} \/ NumTimesteps < 2 THEN Len(neg) + 1
                ELSE CHOOSE j \in bad : \A j2 \in bad : j <= j2
    IN  [edges |-> {<<neg[j][1], neg[j][2]>> : j \in 1 .. (stop - 1)},
         failed |-> stop <= Len(neg)]

\* blocks.py 305-407: Flow._create
Flow_create ==
    /\ Running("Flow", "new")
    /\ IF group["Flow"] = None
       THEN /\ pc' = [pc EXCEPT !["Flow"] = "created"]
            /\ UNCHANGED <<m, err>>
       ELSE LET grp == group["Flow"][1]
                S == Flow_sets(grp)
                pg(f) == f.positive_gradient
                ng(f) == f.negative_gradient
                smx(i, o) == _flow_summed_max_rule(grp, i, o)
                smn(i, o) == _flow_summed_min_rule(grp, i, o)
                pos(i, o, t) == _positive_gradient_flow_rule(grp, i, o, t)
                neg(i, o, t) == _negative_gradient_flow_rule(grp, i, o, t)
                done == NegativeDone(grp)
            IN  /\ m' = [m EXCEPT
                    !.positive_flow_gradient = setub(@, grp, pg),
                    !.negative_flow_gradient = setub(@, grp, ng),
                    !.Flow = [@ EXCEPT
                        !.attrs = @ \cup {"SUMMED_MAX_FLOWS", "SUMMED_MIN_FLOWS",
                                          "NEGATIVE_GRADIENT_FLOWS",
                                          "POSITIVE_GRADIENT_FLOWS",
                                          "summed_max", "summed_min",
                                          "positive_gradient_constr",
                                          "negative_gradient_constr"},
                        !.SUMMED_MAX_FLOWS = S.SUMMED_MAX_FLOWS,
                        !.SUMMED_MIN_FLOWS = S.SUMMED_MIN_FLOWS,
                        !.NEGATIVE_GRADIENT_FLOWS = S.NEGATIVE_GRADIENT_FLOWS,
                        !.POSITIVE_GRADIENT_FLOWS = S.POSITIVE_GRADIENT_FLOWS,
                        !.summed_max = EdgeFamily(S.SUMMED_MAX_FLOWS, smx),
                        !.summed_min = EdgeFamily(S.SUMMED_MIN_FLOWS, smn),
                        !.positive_gradient_constr =
                            LaterTimeFamily(S.POSITIVE_GRADIENT_FLOWS, pos),
                        !.negative_gradient_constr =
                            LaterTimeFamily(done.edges, neg)]]
                /\ IF done.failed
                   THEN /\ err' = Some("KeyError: positive_flow_gradient")
                        /\ pc' = pc
                   ELSE /\ err' = err
                        /\ pc' = [pc EXCEPT !["Flow"] = "created"]
    /\ UNCHANGED <<group, es, log>>

\* blocks.py 409-434: Flow._objective_expression, over m.FLOWS
Flow_objective_expression ==
    /\ ObjectivePhase("Flow")
    /\ pc' = [pc EXCEPT !["Flow"] = "objective"]
    /\ LET F == DOMAIN m.flows
           costed == {k \in F : m.flows[k].variable_costs[0] # None}
       IN  m' = [m EXCEPT !.Flow = [@ EXCEPT
                !.attrs = @ \cup {"fixed_costs", "variable_costs"},
                !.variable_costs =
                    {[var |-> <<"flow", k[1], k[2], t>>, dt |-> TRUE,
                      coef |-> m.flows[k].variable_costs[t][1]]
                     : k \in costed, t \in TIMESTEPS},
                !.fixed_costs = SumOver(F,
                    [k \in F |->
                        IF m.flows[k].fixed_costs # None
                           /\ m.flows[k].fixed_costs[1] # 0
                        THEN m.flows[k].nominal_value * m.flows[k].fixed_costs[1]
                        ELSE 0])]]
    /\ UNCHANGED <<group, err, es, log>>

\* -------------------------------------------------------- LinearTransformer

\* The transformers a group may hold: a single input, a list of outputs and a
\* dict of conversion factors keyed by output.  outs is the set of output
\* lists, factors(o) the set of per-timestep factors of output o, and keys the
\* set of key sets the dict may have.
TransformerObjects(label, input, outs, keys, factors(_)) ==
    UNION {[label : {label}, input : {input}, outputs : outs,
            conversion_factors : [K -> UNION {factors(o) : o \in K}]]
           : K \in keys}

EmptyLinearTransformer == [attrs |-> {}, relation |-> EmptyMap]

\* m.INPUTS[n]: the single input of a transformer
INPUTS(n) == n.input

\* The relation row with the flow into the input bus instead of the flow
\* from it.
LinearTransformer_relation_expr_FromNode(n, o, t) ==
    [lhs |-> [var |-> <<"flow", n.label, INPUTS(n), t>>,
              coef |-> n.conversion_factors[o][t]],
     sense |-> "==",
     rhs |-> <<"flow", n.label, o, t>>]

\* blocks.py 649-652: flow[INPUTS[n], n, t] * conversion_factors[o][t]
\* == flow[n, o, t]
LinearTransformer_relation_expr(n, o, t) ==
    [lhs |-> [var |-> <<"flow", INPUTS(n), n.label, t>>,
              coef |-> n.conversion_factors[o][t]],
     sense |-> "==",
     rhs |-> <<"flow", n.label, o, t>>]

\* blocks.py 646-648: the visits (t, position of n in the group, position of
\* o in n.outputs) of the three loops
RelationVisits(grp) ==
    UNION {{<<t, j, k>> : t \in TIMESTEPS, k \in DOMAIN grp[j].outputs}
           : j \in DOMAIN grp}

\* The order of the visits: t outermost, then n, then o.
VisitedBefore(a, b) ==
    \/ a[1] < b[1]
    \/ a[1] = b[1] /\ a[2] < b[2]
    \/ a[1] = b[1] /\ a[2] = b[2] /\ a[3] < b[3]

\* blocks.py 649-650: the visits at which conversion_factors[o] raises KeyError
RelationFailing(grp) ==
    {v \in RelationVisits(grp) :
        grp[v[2]].outputs[v[3]] \notin DOMAIN grp[v[2]].conversion_factors}

\* blocks.py 645-653: the rows added before the first failing visit
_input_output_relation(grp) ==
    LET done == {v \in RelationVisits(grp) :
                    \A f \in RelationFailing(grp) : VisitedBefore(v, f)}
        key(v) == <<grp[v[2]].label, grp[v[2]].outputs[v[3]], v[1]>>
    IN  [k \in {key(v) : v \in done} |->
            LET v == CHOOSE w \in done : key(w) = k
            IN  LinearTransformer_relation_expr(grp[v[2]], k[2], k[3])]

\* blocks.py 627-655: LinearTransformer._create
LinearTransformer_create ==
    /\ Running("LinearTransformer", "new")
    /\ IF group["LinearTransformer"] = None
       THEN /\ pc' = [pc EXCEPT !["LinearTransformer"] = "created"]
            /\ UNCHANGED <<m, err>>
       ELSE LET grp == group["LinearTransformer"][1]
            IN  /\ m' = [m EXCEPT !.LinearTransformer =
                        [attrs |-> @.attrs \cup {"relation", "relation_build"},
                         relation |-> _input_output_relation(grp)]]
                /\ IF RelationFailing(grp) = {}
                   THEN /\ pc' = [pc EXCEPT !["LinearTransformer"] = "created"]
                        /\ err' = err
                   ELSE /\ pc' = pc
                        /\ err' = Some("KeyError: conversion_factors")
    /\ UNCHANGED <<group, es, log>>

\* ----------------------------------------------------------- specifications

\* The model before any block has been built.
EmptyModel ==
    [flows |-> EmptyMap,
     positive_flow_gradient |-> EmptyMap,
     negative_flow_gradient |-> EmptyMap,
     Discrete |-> EmptyDiscrete, Flow |-> EmptyFlow,
     Storage |-> EmptyStorage, Bus |-> EmptyBus,
     InvestmentFlow |-> EmptyInvestmentFlow,
     InvestmentStorage |-> EmptyInvestmentStorage,
     ElectricalLineBlock |-> EmptyElectricalLineBlock,
     LinearTransformer |-> EmptyLinearTransformer]

InitCommon ==
    /\ pc = [b \in Blocks |-> "new"]
    /\ err = None
    /\ log = << >>

\* An energy system without electrical nodes.
NoElectricalNodes == es = [nodes |-> << >>]

InitStorage ==
    /\ m = EmptyModel
    /\ NoElectricalNodes
    /\ \E g \in StorageGroups : group = OnlyGroup("Storage", g)
    /\ InitCommon

NextStorage ==
    \/ Storage_create
    \/ Storage_objective_expression

SpecStorage == InitStorage /\ [][NextStorage]_vars

InitBus ==
    /\ m = EmptyModel
    /\ NoElectricalNodes
    /\ \E g \in BusGroups : group = OnlyGroup("Bus", g)
    /\ InitCommon

NextBus == Bus_create

SpecBus == InitBus /\ [][NextBus]_vars

InvestmentFlowGroups ==
    {None} \cup {Some(<<<<"c1", "b1", f>>>>) : f \in FreeFlowObjects}

InitInvestmentFlow ==
    /\ m = EmptyModel
    /\ NoElectricalNodes
    /\ \E g \in InvestmentFlowGroups : group = OnlyGroup("InvestmentFlow", g)
    /\ InitCommon

NextInvestmentFlow ==
    \/ InvestmentFlow_create
    \/ InvestmentFlow_objective_expression

SpecInvestmentFlow == InitInvestmentFlow /\ [][NextInvestmentFlow]_vars

\* Lists of the tuples of T, in the order of T, with any of them left out.
RECURSIVE SubLists(_)
SubLists(T) ==
    IF T = << >> THEN {<< >>}
    ELSE LET rest == SubLists(Tail(T))
         IN  rest \cup {<<Head(T)>> \o r : r \in rest}

\* Invested storages s1 (b1 -> s1 -> b2) and s2 (b2 -> s2 -> b1) and the
\* groups of invested edges around them: each edge of s1 may be invested or
\* of fixed size; the edges of s2 are invested.
InvestTopologies ==
    LET s1 == InvestStorageObjects("s1", "b1", "b2", {Const(0), Ramp(0)})
        s2 == InvestStorageObjects("s2", "b2", "b1", {Const(5)})
        storages == {None} \cup {Some(<<a>>) : a \in s1}
                    \cup {Some(<<a, b>>) : a \in s1,
                             b \in {x \in s2 : x.initial_capacity = None
                                               /\ x.fixed_costs = None}}
        f2 == CHOOSE f \in CouplingFlowObjects : f.investment.ep_costs # None
        edges == {None} \cup
            {Some(l) : l \in UNION {SubLists(<<<<"b1", "s1", fi>>, <<"s1", "b2", fo>>>>
                                              \o tail)
                                    : fi \in CouplingFlowObjects,
                                      fo \in CouplingFlowObjects,
                                      tail \in {<< >>, <<<<"b2", "s2", f2>>,
                                                        <<"s2", "b1", f2>>>>}}
                        \ {<< >>}}
    IN  {[b \in Blocks |-> IF b = "InvestmentFlow" THEN e
                            ELSE IF b = "InvestmentStorage" THEN st
                            ELSE None] : e \in edges, st \in storages}

InitInvest ==
    /\ m = EmptyModel
    /\ NoElectricalNodes
    /\ group \in InvestTopologies
    /\ InitCommon

NextInvest ==
    \/ InvestmentFlow_create
    \/ InvestmentFlow_objective_expression
    \/ InvestmentStorage_create
    \/ InvestmentStorage_objective_expression

SpecInvest == InitInvest /\ [][NextInvest]_vars

\* Two or three electrical buses, each built with slack absent, True or
\* False, followed by a plain bus.
ElectricalNodes ==
    LET args == {[slack |-> a] : a \in {None, Some(TRUE), Some(FALSE)}}
    IN  {<<ElectricalBus("e1", k1), ElectricalBus("e2", k2), PlainBus("b1")>>
            : k1 \in args, k2 \in args}
        \cup {<<ElectricalBus("e1", k1), ElectricalBus("e2", k2),
                ElectricalBus("e3", k3), PlainBus("b1")>>
            : k1 \in args, k2 \in args, k3 \in args}

\* Lines e1 -> e2 and e2 -> e1, and a line that starts at the plain bus.
ElectricalLineGroups ==
    LET l1 == ElectricalLine("l1", "e1", "e2", Ramp(2))
        l2 == ElectricalLine("l2", "e2", "e1", Ramp(5))
        l3 == ElectricalLine("l3", "b1", "e1", Ramp(1))
    IN  {None, Some(<<l1>>), Some(<<l1, l2>>), Some(<<l1, l3, l2>>)}

InitElectrical ==
    /\ m = EmptyModel
    /\ \E nodes \in ElectricalNodes : es = [nodes |-> nodes]
    /\ \E g \in ElectricalLineGroups : group = OnlyGroup("ElectricalLineBlock", g)
    /\ InitCommon

NextElectrical == ElectricalLineBlock_create

SpecElectrical == InitElectrical /\ [][NextElectrical]_vars

DiscreteGroups ==
    LET e1 == {<<"c1", "b1", f>> : f \in DiscreteFlowObjects(10)}
        e2 == {<<"b1", "c2", f>> : f \in DiscreteFlowObjects(30)}
    IN  {None} \cup {Some(<<a>>) : a \in e1}
        \cup {Some(<<a, b>>) : a \in e1, b \in e2}

InitDiscrete ==
    /\ m = EmptyModel
    /\ NoElectricalNodes
    /\ \E g \in DiscreteGroups : group = OnlyGroup("Discrete", g)
    /\ InitCommon

NextDiscrete == Discrete_create

SpecDiscrete == InitDiscrete /\ [][NextDiscrete]_vars

FlowGroups ==
    LET e1 == {<<"c1", "b1", f>> :
                  f \in FlowObjects(10, {ConstNone}, {None, Some(0), Some(4)})}
        e2 == {<<"b1", "c2", f>> :
                  f \in FlowObjects(30, {ConstNone, RampSome(2)}, {None})}
    IN  {None} \cup {Some(<<a>>) : a \in e1}
        \cup {Some(<<a, b>>) : a \in e1, b \in e2}
        \cup {Some(<<b, a>>) : a \in e1, b \in e2}

\* The model before the Flow block is built: m.flows holds the flow objects
\* of the group and the ramp variables exist.
FlowModel(g) ==
    IF g = None THEN EmptyModel
    ELSE LET pos(f) == f.positive_gradient[0] # None
             neg(f) == f.negative_gradient[0] # None
         IN  [EmptyModel EXCEPT
                !.flows = [k \in {<<x[1], x[2]>> : x \in Range(g[1])} |->
                              flows(g[1], k[1], k[2])],
                !.positive_flow_gradient = GradientVars(g[1], pos),
                !.negative_flow_gradient = GradientVars(g[1], neg)]

InitFlow ==
    /\ NoElectricalNodes
    /\ \E g \in FlowGroups :
        /\ group = OnlyGroup("Flow", g)
        /\ m = FlowModel(g)
    /\ InitCommon

NextFlow ==
    \/ Flow_create
    \/ Flow_objective_expression

SpecFlow == InitFlow /\ [][NextFlow]_vars

TransformerGroups ==
    LET f2(o) == IF o = "b2" THEN {Const(40), Ramp(50), Const(100)}
                 ELSE {Const(90), Ramp(10)}
        f1(o) == {Const(30), Ramp(30)}
        t1 == TransformerObjects("t1", "b1", {<<"b2">>, <<"b2", "b3">>},
                                 {{"b2"}, {"b2", "b3"}}, f2)
        t2 == TransformerObjects("t2", "b2", {<<"b1">>}, {{}, {"b1"}}, f1)
    IN  {None} \cup {Some(<<a>>) : a \in t1}
        \cup {Some(<<a, b>>) : a \in t1, b \in t2}

InitTransformer ==
    /\ m = EmptyModel
    /\ NoElectricalNodes
    /\ \E g \in TransformerGroups : group = OnlyGroup("LinearTransformer", g)
    /\ InitCommon

NextTransformer == LinearTransformer_create

SpecTransformer == InitTransformer /\ [][NextTransformer]_vars

\* ------------------------------------------------------------------ Storage
\* properties

StorageBuilt == pc["Storage"] # "new" /\ group["Storage"] # None

\* C1: after Storage._create the balance family has exactly the keys
\* STORAGES x TIMESTEPS, and the row of (n, t) is
\*   capacity[n,t] - capacity[n,previous(t)]*(1-capacity_loss[t])
\*   - flow[input(n),n,t]*inflow_conversion_factor[t]*dt
\*   + flow[n,output(n),t]/outflow_conversion_factor[t]*dt == 0
\* with previous(first) = last and previous(t) = t-1 otherwise.
C1_StorageBalance ==
    StorageBuilt =>
        LET grp == Range(group["Storage"][1])
        IN  /\ DOMAIN m.Storage.balance = {<<n.label, t>> : n \in grp, t \in TIMESTEPS}
            /\ \A n \in grp, t \in TIMESTEPS :
                LET row == m.Storage.balance[<<n.label, t>>]
                    prev == IF t = 0 THEN NumTimesteps - 1 ELSE t - 1
                IN  /\ row.sense = "=="
                    /\ row.rhs = 0
                    /\ row.terms =
                        {[sign |-> 1, var |-> <<"capacity", n.label, t>>,
                          op |-> "*", factor |-> 100, dt |-> FALSE],
                         [sign |-> -1, var |-> <<"capacity", n.label, prev>>,
                          op |-> "*", factor |-> 100 - n.capacity_loss[t],
                          dt |-> FALSE],
                         [sign |-> -1, var |-> <<"flow", n.input, n.label, t>>,
                          op |-> "*", factor |-> n.inflow_conversion_factor[t],
                          dt |-> TRUE],
                         [sign |-> 1, var |-> <<"flow", n.label, n.output, t>>,
                          op |-> "/", factor |-> n.outflow_conversion_factor[t],
                          dt |-> TRUE]}

\* Two storages are built and the row of the first timestep refers to the
\* capacity of the last one.
C1_Witness ==
    /\ StorageBuilt
    /\ Cardinality(m.Storage.STORAGES) = 2
    /\ \E n \in m.Storage.STORAGES :
        /\ n.capacity_loss[0] # n.capacity_loss[LastTimestep]
        /\ \E term \in m.Storage.balance[<<n.label, 0>>].terms :
            term.var = <<"capacity", n.label, LastTimestep>> /\ term.sign = -1

\* C2: after Storage._create, capacity[n, t] is fixed exactly when n has an
\* initial_capacity and t is the last timestep, and then its value is
\* initial_capacity * nominal_capacity.
C2_InitialCapacityFixed ==
    StorageBuilt =>
        LET grp == Range(group["Storage"][1])
        IN  /\ DOMAIN m.Storage.capacity = {<<n.label, t>> : n \in grp, t \in TIMESTEPS}
            /\ \A n \in grp, t \in TIMESTEPS :
                LET v == m.Storage.capacity[<<n.label, t>>]
                IN  /\ v.fixed <=> (n.initial_capacity # None /\ t = NumTimesteps - 1)
                    /\ v.fixed =>
                        v.value = Some(n.initial_capacity[1] * n.nominal_capacity)
                    /\ ~v.fixed => v.value = None

\* One storage with an initial capacity and one without are built.
C2_Witness ==
    /\ StorageBuilt
    /\ \E n1, n2 \in m.Storage.STORAGES :
        /\ n1.initial_capacity = Some(50)
        /\ n2.initial_capacity = None
        /\ m.Storage.capacity[<<n1.label, LastTimestep>>].fixed
        /\ m.Storage.capacity[<<n1.label, LastTimestep>>].value
               = Some(50 * n1.nominal_capacity)
        /\ ~m.Storage.capacity[<<n2.label, LastTimestep>>].fixed

\* ---------------------------------------------------------------------- Bus
\* properties

BusBuilt == pc["Bus"] # "new" /\ group["Bus"] # None

\* C3: after Bus._create every bus with an input and an output has, at every
\* timestep, the row  sum_i flow[i,bus,t]*dt == sum_o flow[bus,o,t]*dt ; a flow
\* variable occurs on the inflow side of rows of its target bus only and on
\* the outflow side of rows of its source bus only, at its own timestep.
C3_BusBalance ==
    BusBuilt =>
        /\ \A n \in Range(group["Bus"][1]), t \in TIMESTEPS :
            (n.inputs # {} /\ n.outputs # {}) =>
                /\ <<n.label, t>> \in DOMAIN m.Bus.balance
                /\ LET row == m.Bus.balance[<<n.label, t>>]
                   IN  /\ row.lhs = {<<"flow", i, n.label, t>> : i \in n.inputs}
                       /\ row.rhs = {<<"flow", n.label, o, t>> : o \in n.outputs}
                       /\ row.sense = "=="
                       /\ row.dt
        /\ \A k \in DOMAIN m.Bus.balance :
            /\ \A v \in m.Bus.balance[k].lhs : v[3] = k[1] /\ v[4] = k[2]
            /\ \A v \in m.Bus.balance[k].rhs : v[2] = k[1] /\ v[4] = k[2]

\* A bus with two inputs and an output has its row at the last timestep.
C3_Witness ==
    /\ BusBuilt
    /\ \E n \in Range(group["Bus"][1]) :
        /\ Cardinality(n.inputs) = 2
        /\ n.outputs # {}
        /\ <<n.label, LastTimestep>> \in DOMAIN m.Bus.balance
        /\ Cardinality(m.Bus.balance[<<n.label, LastTimestep>>].lhs) = 2

\* C4 as stated: a bus without inputs or without outputs has no balance row.
C4_NoRowForOneSidedBus ==
    BusBuilt =>
        \A n \in Range(group["Bus"][1]), t \in TIMESTEPS :
            (n.inputs = {} \/ n.outputs = {}) =>
                <<n.label, t>> \notin DOMAIN m.Bus.balance

\* C4, amended: only a bus with neither inputs nor outputs has no balance
\* row; a bus with flows on one side only has the row that equates the sum
\* of that side with 0, at every timestep.
C4_NoRowForIsolatedBus ==
    BusBuilt =>
        \A n \in Range(group["Bus"][1]), t \in TIMESTEPS :
            /\ (n.inputs = {} /\ n.outputs = {}) =>
                <<n.label, t>> \notin DOMAIN m.Bus.balance
            /\ (n.inputs = {} /\ n.outputs # {}) =>
                /\ <<n.label, t>> \in DOMAIN m.Bus.balance
                /\ m.Bus.balance[<<n.label, t>>].lhs = {}
                /\ m.Bus.balance[<<n.label, t>>].rhs
                       = {<<"flow", n.label, o, t>> : o \in n.outputs}
            /\ (n.inputs # {} /\ n.outputs = {}) =>
                /\ <<n.label, t>> \in DOMAIN m.Bus.balance
                /\ m.Bus.balance[<<n.label, t>>].rhs = {}
                /\ m.Bus.balance[<<n.label, t>>].lhs
                       = {<<"flow", i, n.label, t>> : i \in n.inputs}

\* An isolated bus and a bus with inputs only are built: the first has no
\* row, the second has one.
C4_Witness ==
    /\ BusBuilt
    /\ \E n1, n2 \in Range(group["Bus"][1]) :
        /\ n1.inputs = {} /\ n1.outputs = {}
        /\ <<n1.label, 0>> \notin DOMAIN m.Bus.balance
        /\ n2.inputs # {} /\ n2.outputs = {}
        /\ <<n2.label, 0>> \in DOMAIN m.Bus.balance

\* --------------------------------------------------------------- investment
\* properties

MissingEpCosts == Some("ValueError: Missing value for investment costs!")

\* The invested edges and storages of the topology without ep_costs.
FlowsWithoutEpCosts ==
    IF group["InvestmentFlow"] = None THEN {}
    ELSE {<<g[1], g[2]>> : g \in {x \in Range(group["InvestmentFlow"][1]) :
                                      x[3].investment.ep_costs = None}}

StoragesWithoutEpCosts ==
    IF group["InvestmentStorage"] = None THEN {}
    ELSE {n.label : n \in {x \in Range(group["InvestmentStorage"][1]) :
                              x.investment.ep_costs = None}}

\* C5 as stated: no state of the build has a variable of a component without
\* ep_costs (the sizing variable of an edge, the sizing or capacity variables
\* of a storage) while the build has not failed.
C5_ErrorBeforeVariables ==
    /\ \A k \in FlowsWithoutEpCosts :
        k \in DOMAIN m.InvestmentFlow.invest => err # None
    /\ \A n \in StoragesWithoutEpCosts :
        (n \in DOMAIN m.InvestmentStorage.invest
         \/ \E t \in TIMESTEPS : <<n, t>> \in m.InvestmentStorage.capacity)
            => err # None

\* C5, amended: the objective expression of a block never completes while a
\* component of its group has no ep_costs; the error for missing ep_costs is
\* raised by the objective expression of a created block, when the variables
\* of the component without ep_costs already exist.
C5_ErrorInObjective ==
    /\ pc["InvestmentFlow"] = "objective" => FlowsWithoutEpCosts = {}
    /\ pc["InvestmentStorage"] = "objective" => StoragesWithoutEpCosts = {}
    /\ err = MissingEpCosts =>
        \/ /\ pc["InvestmentFlow"] = "created"
           /\ \E k \in FlowsWithoutEpCosts : k \in DOMAIN m.InvestmentFlow.invest
        \/ /\ pc["InvestmentStorage"] = "created"
           /\ \E n \in StoragesWithoutEpCosts :
                /\ n \in DOMAIN m.InvestmentStorage.invest
                /\ \A t \in TIMESTEPS : <<n, t>> \in m.InvestmentStorage.capacity

\* The objective expression of the storage block has raised for a storage
\* without ep_costs whose variables exist, after the edges were costed.
C5_Witness ==
    /\ err = MissingEpCosts
    /\ pc["InvestmentFlow"] = "objective"
    /\ pc["InvestmentStorage"] = "created"
    /\ \E n \in StoragesWithoutEpCosts : n \in DOMAIN m.InvestmentStorage.invest

\* --------------------------------------------------------------- electrical
\* properties

ElectricalBuilt ==
    pc["ElectricalLineBlock"] = "created" /\ group["ElectricalLineBlock"] # None

\* C6: after ElectricalLineBlock._create the electrical_flow row of (n, t) is
\* flow[n,output(n),t] == 0 when the output bus of n is a slack bus, and
\* flow[n,output(n),t] == (1/reactance[t]) * (voltage_angle[input(n),t]
\* - voltage_angle[output(n),t]) otherwise.
C6_SlackLinePinnedToZero ==
    ElectricalBuilt =>
        \A n \in Range(group["ElectricalLineBlock"][1]), t \in TIMESTEPS :
            /\ <<n.label, t>> \in DOMAIN m.ElectricalLineBlock.electrical_flow
            /\ LET row == m.ElectricalLineBlock.electrical_flow[<<n.label, t>>]
               IN  /\ row.lhs = <<"flow", n.label, n.output, t>>
                   /\ row.sense = "=="
                   /\ IF node(n.output).slack
                      THEN row.rhs = [terms |-> {}, reactance |-> None]
                      ELSE row.rhs =
                            [terms |-> {[sign |-> 1,
                                         var |-> <<"voltage_angle", n.input, t>>],
                                        [sign |-> -1,
                                         var |-> <<"voltage_angle", n.output, t>>]},
                             reactance |-> Some(n.reactance[t])]

\* C7: after ElectricalLineBlock._create has completed, exactly one of the
\* electrical buses has slack = True.
C7_ExactlyOneSlack ==
    ElectricalBuilt =>
        Cardinality({k \in DOMAIN ELECTRICAL_BUSES : ELECTRICAL_BUSES[k].slack}) = 1

\* The lines of the group connect electrical buses and have a reactance.
LinesWellFormed ==
    \A n \in Range(group["ElectricalLineBlock"][1]) :
        /\ \E b \in Range(ELECTRICAL_BUSES) : b.label = n.input
        /\ \E b \in Range(ELECTRICAL_BUSES) : b.label = n.output

\* C8: once ElectricalLineBlock._create has run on a topology in which every
\* electrical bus was built with slack = False, the first electrical bus is
\* marked slack, a note is logged, no error is raised and the electrical_flow
\* rows of every line and timestep are built.
C8_SlackAutoSelected ==
    (/\ group["ElectricalLineBlock"] # None
     /\ "ELECTRICAL_BUSES" \in m.ElectricalLineBlock.attrs
     /\ LinesWellFormed
     /\ \A b \in Range(ELECTRICAL_BUSES) : b.kwargs.slack = Some(FALSE))
        => /\ err = None
           /\ ELECTRICAL_BUSES[1].slack
           /\ log # << >>
           /\ \A n \in Range(group["ElectricalLineBlock"][1]), t \in TIMESTEPS :
                <<n.label, t>> \in DOMAIN m.ElectricalLineBlock.electrical_flow

\* ----------------------------------------------------------------- Discrete
\* properties

\* C9: the build of the Discrete block never completes for a group that holds
\* an edge with start_costs.
C9_StartCostsRejected ==
    (/\ group["Discrete"] # None
     /\ \E g \in Range(group["Discrete"][1]) : g[3].discrete.start_costs # None)
        => pc["Discrete"] # "created"

\* --------------------------------------------------------------------- Flow
\* properties

FlowBuilt == pc["Flow"] # "new" /\ group["Flow"] # None

\* C10: after Flow._create every edge with negative_gradient has, for every
\* timestep t > 0, the row  flow[edge,t-1] - flow[edge,t] <=
\* negative_flow_gradient[edge,t]  in negative_gradient_constr, and no row for
\* the first timestep.
C10_RampDown ==
    FlowBuilt =>
        \A g \in Range(group["Flow"][1]) :
            g[3].negative_gradient[0] # None =>
                /\ <<g[1], g[2], 0>> \notin DOMAIN m.Flow.negative_gradient_constr
                /\ \A t \in TIMESTEPS \ {0} :
                    /\ <<g[1], g[2], t>> \in DOMAIN m.Flow.negative_gradient_constr
                    /\ m.Flow.negative_gradient_constr[<<g[1], g[2], t>>] =
                        [lhs |-> [plus |-> <<"flow", g[1], g[2], t - 1>>,
                                  minus |-> <<"flow", g[1], g[2], t>>],
                         sense |-> "<=",
                         rhs |-> <<"negative_flow_gradient", g[1], g[2], t>>]

\* The edges of the Flow group with positive_gradient set.
PositiveGradientEdges ==
    {<<g[1], g[2]>> : g \in {x \in Range(group["Flow"][1]) :
                                x[3].positive_gradient[0] # None}}

\* C11: after Flow._create the keys of positive_gradient_constr are exactly
\* the (edge, t) with positive_gradient set on the edge and t > 0, the row of
\* (edge, t) is  flow[edge,t] - flow[edge,t-1] <= positive_flow_gradient[edge,t],
\* and the upper bound of positive_flow_gradient[edge,t] is
\* positive_gradient[t] * nominal_value at every timestep.
C11_RampUp ==
    FlowBuilt =>
        /\ DOMAIN m.Flow.positive_gradient_constr =
              {<<e[1], e[2], t>> : e \in PositiveGradientEdges,
                                   t \in TIMESTEPS \ {0}}
        /\ \A e \in PositiveGradientEdges :
            LET f == flows(group["Flow"][1], e[1], e[2])
            IN  /\ \A t \in TIMESTEPS \ {0} :
                    m.Flow.positive_gradient_constr[<<e[1], e[2], t>>] =
                        [lhs |-> [plus |-> <<"flow", e[1], e[2], t>>,
                                  minus |-> <<"flow", e[1], e[2], t - 1>>],
                         sense |-> "<=",
                         rhs |-> <<"positive_flow_gradient", e[1], e[2], t>>]
                /\ \A t \in TIMESTEPS :
                    m.positive_flow_gradient[<<e[1], e[2], t>>].ub =
                        Some(f.positive_gradient[t][1] * f.nominal_value)

\* Flow._create has completed for a group of two edges of which exactly one
\* has positive_gradient set, and the ramp-up rows of that edge exist.
C11_Witness ==
    /\ FlowBuilt
    /\ Len(group["Flow"][1]) = 2
    /\ Cardinality(PositiveGradientEdges) = 1
    /\ m.Flow.positive_gradient_constr # EmptyMap

\* ------------------------------------------------------------ InvestmentFlow
\* properties

InvestmentFlowBuilt ==
    pc["InvestmentFlow"] # "new" /\ group["InvestmentFlow"] # None

\* The keys (edge, t) of a family of rows that belong to the edge (i, o).
RowsOfEdge(family, i, o) == {k \in DOMAIN family : k[1] = i /\ k[2] = o}

\* C12: after InvestmentFlow._create an edge marked fixed has at every
\* timestep the row  flow[edge,t] == invest[edge] * actual_value[t]  and no
\* row in max or min; an edge not marked fixed has no such equality, has
\* flow[edge,t] <= max[t] * invest[edge]  at every timestep exactly when a
\* max fraction is declared, and  flow[edge,t] >= min[t] * invest[edge]  at
\* every timestep exactly when a min fraction is declared.
C12_FixedOrBounded ==
    InvestmentFlowBuilt =>
        \A g \in Range(group["InvestmentFlow"][1]) :
            LET i == g[1]
                o == g[2]
                f == g[3]
                B == m.InvestmentFlow
                all == {<<i, o, t>> : t \in TIMESTEPS}
                row(sense, coef, t) ==
                    [lhs |-> <<"flow", i, o, t>>, sense |-> sense,
                     rhs |-> [var |-> <<"invest", i, o>>, coef |-> coef[t]]]
            IN  IF f.fixed
                THEN /\ RowsOfEdge(B.bounds, i, o) = all
                     /\ \A t \in TIMESTEPS :
                            B.bounds[<<i, o, t>>] = row("==", f.actual_value, t)
                     /\ RowsOfEdge(B.max, i, o) = {}
                     /\ RowsOfEdge(B.min, i, o) = {}
                ELSE /\ RowsOfEdge(B.bounds, i, o) = {}
                     /\ IF len(f.max) # 0
                        THEN /\ RowsOfEdge(B.max, i, o) = all
                             /\ \A t \in TIMESTEPS :
                                    B.max[<<i, o, t>>] = row("<=", f.max, t)
                        ELSE RowsOfEdge(B.max, i, o) = {}
                     /\ IF len(f.min) # 0
                        THEN /\ RowsOfEdge(B.min, i, o) = all
                             /\ \A t \in TIMESTEPS :
                                    B.min[<<i, o, t>>] = row(">=", f.min, t)
                        ELSE RowsOfEdge(B.min, i, o) = {}

\* -------------------------------------------------------- LinearTransformer
\* properties

TransformerBuilt ==
    pc["LinearTransformer"] # "new" /\ group["LinearTransformer"] # None

\* C13: after LinearTransformer._create the keys of relation are exactly the
\* (n, o, t) with n a transformer of the group, o an output of n and t a
\* timestep, and the row of (n, o, t) is
\* flow[input(n),n,t] * conversion_factors[o][t] == flow[n,o,t].
C13_Relation ==
    TransformerBuilt =>
        LET grp == group["LinearTransformer"][1]
        IN  /\ DOMAIN m.LinearTransformer.relation =
                  UNION {{<<n.label, o, t>> : o \in Range(n.outputs),
                                              t \in TIMESTEPS}
                         : n \in Range(grp)}
            /\ \A n \in Range(grp) : \A o \in Range(n.outputs) :
                \A t \in TIMESTEPS :
                    /\ <<n.label, o, t>> \in DOMAIN m.LinearTransformer.relation
                    /\ m.LinearTransformer.relation[<<n.label, o, t>>] =
                        [lhs |-> [var |-> <<"flow", n.input, n.label, t>>,
                                  coef |-> n.conversion_factors[o][t]],
                         sense |-> "==",
                         rhs |-> <<"flow", n.label, o, t>>]

\* LinearTransformer._create has completed for two transformers, one of them
\* with two outputs.
C13_Witness ==
    /\ TransformerBuilt
    /\ Len(group["LinearTransformer"][1]) = 2
    /\ Len(group["LinearTransformer"][1][1].outputs) = 2
    /\ Cardinality(DOMAIN m.LinearTransformer.relation) = 3 * NumTimesteps

\* --------------------------------------------------------- InvestmentStorage
\* properties

\* InvestmentStorage._create has run on a group, to its end or to an exception.
InvestmentStorageRan ==
    /\ group["InvestmentStorage"] # None
    /\ "INVESTSTORAGES" \in m.InvestmentStorage.attrs

\* The InvestmentFlow block holds a sizing variable for both edges of n.
EdgesSized(n) ==
    /\ "invest" \in m.InvestmentFlow.attrs
    /\ <<n.input, n.label>> \in DOMAIN m.InvestmentFlow.invest
    /\ <<n.label, n.output>> \in DOMAIN m.InvestmentFlow.invest

\* C14: once InvestmentStorage._create has run, either the InvestmentFlow
\* block had created the sizing variables of the input and output edge of
\* every storage, and then _create has completed and the two coupling
\* families hold, for every storage n, exactly
\* invest_flow[input(n),n] == invest[n] * nominal_input_capacity_ratio and
\* invest_flow[n,output(n)] == invest[n] * nominal_output_capacity_ratio;
\* or it had not (the storage block was built first, or an edge is of fixed
\* size), and then _create has raised and has not completed.
C14_CouplingAfterInvestmentFlow ==
    InvestmentStorageRan =>
        LET S == Range(group["InvestmentStorage"][1])
            B == m.InvestmentStorage
            row(var, coef, n) ==
                [lhs |-> var, sense |-> "==",
                 rhs |-> [var |-> <<"invest", n.label>>, coef |-> coef]]
        IN  IF \A n \in S : EdgesSized(n)
            THEN /\ pc["InvestmentStorage"] # "new"
                 /\ pc["InvestmentFlow"] # "new"
                 /\ DOMAIN B.storage_capacity_input_invest = {n.label : n \in S}
                 /\ DOMAIN B.storage_capacity_output_invest = {n.label : n \in S}
                 /\ \A n \in S :
                    /\ B.storage_capacity_input_invest[n.label] =
                        row(<<"InvestmentFlow.invest", n.input, n.label>>,
                            n.nominal_input_capacity_ratio, n)
                    /\ B.storage_capacity_output_invest[n.label] =
                        row(<<"InvestmentFlow.invest", n.label, n.output>>,
                            n.nominal_output_capacity_ratio, n)
            ELSE /\ pc["InvestmentStorage"] = "new"
                 /\ err \in {Some("AttributeError: InvestmentFlow.invest"),
                              Some("KeyError: InvestmentFlow.invest")}
                 /\ "storage_capacity_output_invest" \notin B.attrs

\* Two invested storages have been coupled to their four invested edges.
C14_Witness ==
    /\ InvestmentStorageRan
    /\ pc["InvestmentStorage"] = "created"
    /\ Len(group["InvestmentStorage"][1]) = 2
    /\ \A n \in Range(group["InvestmentStorage"][1]) : EdgesSized(n)
    /\ Cardinality(DOMAIN m.InvestmentStorage.storage_capacity_input_invest) = 2

InvestmentStorageBuilt ==
    pc["InvestmentStorage"] # "new" /\ group["InvestmentStorage"] # None

DiscreteBuilt == pc["Discrete"] # "new" /\ group["Discrete"] # None

\* C16: after Discrete._create every edge that declares a nonzero minimum
\* fraction has, at every timestep t, the rows
\* status[edge,t] * min[t] * nominal_value >= flow[edge,t]  in minimum_flow and
\* status[edge,t] * max[t] * nominal_value <= flow[edge,t]  in maximum_flow; an
\* edge that declares no nonzero minimum fraction has no row in either family.
C16_DiscreteBounds ==
    DiscreteBuilt =>
        \A g \in Range(group["Discrete"][1]) :
            LET i == g[1]
                o == g[2]
                f == g[3]
                B == m.Discrete
                row(sense, frac, t) ==
                    [lhs |-> [var |-> <<"status", i, o, t>>,
                              coef |-> frac[t] * f.nominal_value],
                     sense |-> sense,
                     rhs |-> <<"flow", i, o, t>>]
            IN  IF \E t \in TIMESTEPS : f.min[t] # 0
                THEN \A t \in TIMESTEPS :
                        /\ <<i, o, t>> \in DOMAIN B.minimum_flow
                        /\ <<i, o, t>> \in DOMAIN B.maximum_flow
                        /\ B.minimum_flow[<<i, o, t>>] = row(">=", f.min, t)
                        /\ B.maximum_flow[<<i, o, t>>] = row("<=", f.max, t)
                ELSE /\ RowsOfEdge(B.minimum_flow, i, o) = {}
                     /\ RowsOfEdge(B.maximum_flow, i, o) = {}

\* ---------------------------------------------------------------- electrical
\* properties (continued)

\* C17: after ElectricalLineBlock._create the keys of _equate_electrical_flows
\* are exactly the (n, t) with n a line of the group and t a timestep, lines
\* into a slack bus included, and the row of (n, t) is
\* flow[n,output(n),t] == flow[input(n),n,t].
C17_EquateElectricalFlows ==
    ElectricalBuilt =>
        LET grp == group["ElectricalLineBlock"][1]
            rows == m.ElectricalLineBlock.equate_electrical_flows
        IN  /\ DOMAIN rows = {<<n.label, t>> : n \in Range(grp), t \in TIMESTEPS}
            /\ \A n \in Range(grp) : \A t \in TIMESTEPS :
                    rows[<<n.label, t>>] =
                        [lhs |-> <<"flow", n.label, n.output, t>>,
                         sense |-> "==",
                         rhs |-> <<"flow", n.input, n.label, t>>]

\* ElectricalLineBlock._create has completed for a group with a line into a
\* slack bus and a line into a bus that is not slack.
C17_Witness ==
    /\ ElectricalBuilt
    /\ \E n \in Range(group["ElectricalLineBlock"][1]) : node(n.output).slack
    /\ \E n \in Range(group["ElectricalLineBlock"][1]) : ~node(n.output).slack
    /\ m.ElectricalLineBlock.equate_electrical_flows # EmptyMap

====
